---- MODULE Spec2Model ----
(***************************************************************************)
(* State-machine model of ytscraper's `search` command                     *)
(* (src/ytscraper/commands/search.py): configuration validation, seed      *)
(* resolution, the breadth-first crawl of build_nodes with its per-level   *)
(* branching lookup _get_branching, and the delivery of the result.        *)
(*                                                                         *)
(* The helpers (get_youtube_handle, video_search, video_info,              *)
(* related_search, filter_text, export_to_csv) are external: what they     *)
(* answer is chosen nondeterministically, and every call of the YouTube    *)
(* queries is logged in `calls`.                                           *)
(***************************************************************************)
EXTENDS Integers, Sequences, FiniteSets, TLC

(***************************************************************************)
(* Bounds of the model.                                                    *)
(***************************************************************************)
\* largest max_depth a configuration carries (the smallest is -1)
MaxDepth == 2
\* longest config["number"] schedule
MaxSchedule == 2
\* most records the collaborators hand out during one crawl
MaxItems == 4
\* indices tried on _get_branching range over -MaxIndex .. MaxIndex
MaxIndex == 4

\* video identifiers the collaborators answer with
Ids == {"a", "b"}

\* largest entry of config["number"]: as many as there are ids
MaxCount == Cardinality(Ids)

VARIABLES
    pc,           \* position inside search(): see the actions below
    error,        \* the exception that left search(), "none" while there is none
    search_type,  \* argument SEARCH-TYPE
    query,        \* argument QUERY
    config,       \* the mapping context.obj["config"] (validate writes it in place)
    verbose,      \* context.obj["verbose"]
    queue,        \* build_nodes: the deque
    processed,    \* build_nodes: the list `processed` (returned as `nodes`)
    calls,        \* log of the calls made to the YouTube collaborators
    filtered,     \* number of filter_text calls made
    exported,     \* log of export_to_csv calls
    printed,      \* the blocks print() wrote, one per rendered node
    container,    \* _get_branching driver: argument `container`
    index,        \* _get_branching driver: argument `index`
    result,       \* _get_branching driver: what the call gave
    saved,        \* config command: the mapping in the configuration file
    stored,       \* config command: the mapping context.obj["config"]
    outcome       \* config command: how the last command ended

vars == <<pc, error, search_type, query, config, verbose, queue, processed,
          calls, filtered, exported, printed, container, index, result,
          saved, stored, outcome>>

crawlVars == <<pc, error, search_type, query, config, verbose, queue,
               processed, calls, filtered, exported, printed>>
branchVars == <<container, index, result>>
setVars == <<saved, stored, outcome>>
\* what no step of search() writes
rest == <<branchVars, setVars>>

(***************************************************************************)
(* Python values.                                                          *)
(***************************************************************************)
Min(a, b) == IF a <= b THEN a ELSE b
Max(a, b) == IF a >= b THEN a ELSE b

\* sequences over S of length lo..hi
SeqsOf(S, lo, hi) == UNION {[1..n -> S] : n \in lo..hi}

\* what a collaborator may answer when asked for `count` records: the code
\* takes whatever comes back, fewer records, the same id twice, or one
\* record more than it asked for
Answers(count) == SeqsOf(Ids, 0, count + 1)

\* container[i] of a Python sequence: a negative i counts from the end, an
\* index outside the sequence raises IndexError
PyIndex(c, i) ==
    LET j == IF i < 0 THEN i + Len(c) ELSE i
    IN IF j >= 0 /\ j < Len(c) THEN [ok |-> TRUE, val |-> c[j + 1]]
       ELSE [ok |-> FALSE, val |-> 0]

\* int(x): an int is kept, a decimal string is parsed, any other string
\* raises ValueError
PyInt(x) ==
    IF x.t \in {"int", "str"} THEN [ok |-> TRUE, val |-> x.v]
    ELSE [ok |-> FALSE, val |-> 0]

(***************************************************************************)
(* Inputs of one run of `search`.                                          *)
(***************************************************************************)
\* config["max_depth"] as loaded: an int, a decimal string, or a string
\* that is no number
MaxDepthValues ==
    [t : {"int", "str"}, v : -1..MaxDepth] \cup {[t |-> "bad", v |-> 0]}

\* config["number"] as loaded: one int, or a (possibly empty) schedule
NumberValues ==
    [t : {"int"}, v : 1..MaxCount]
        \cup [t : {"seq"}, v : SeqsOf(1..MaxCount, 0, MaxSchedule)]

Configs ==
    [max_depth : MaxDepthValues, number : NumberValues,
     output_dir : {"", "out"}, output_format : {"none", "csv"}]

\* QUERY: `s` is the text, `v` what parse_qs finds under "v" in its query
\* string (parse_qs has no key "v" when the list would be empty)
Queries(st) ==
    CASE st = "term" -> {[s |-> "q", v |-> <<>>]}
      [] st = "id" -> [s : Ids, v : {<<>>}]
      [] st = "url" -> [s : {"url"}, v : {<<>>} \cup {<<i>> : i \in Ids}]

(***************************************************************************)
(* Video records (Python dicts): `keys` is the set of keys the dict has,   *)
(* the other fields are the values under these keys.                       *)
(***************************************************************************)
\* a record as a collaborator returns it
Raw(id) ==
    [videoId |-> id, keys |-> {"videoId", "title"}, rank |-> 0, depth |-> 0,
     relatedVideos |-> <<>>]

Raws(ids) == [i \in 1..Len(ids) |-> Raw(ids[i])]

\* video.update({"rank": rank, "depth": depth})
Update(video, rank, depth) ==
    [video EXCEPT !.rank = rank, !.depth = depth,
                  !.keys = @ \cup {"rank", "depth"}]

\* video["relatedVideos"] = ids
SetRelated(video, ids) ==
    [video EXCEPT !.relatedVideos = ids, !.keys = @ \cup {"relatedVideos"}]

\* the keys of a node whose value is a str (search.py line 99)
StrKeys(node) == node.keys \cap {"videoId", "title"}

(***************************************************************************)
(* validate (search.py lines 134-140).                                     *)
(***************************************************************************)
\* number is wrapped whatever it is: a tuple becomes a tuple in a tuple (the
\* type tag records the nesting)
validate_always_wraps(c) ==
    LET depth == PyInt(c.max_depth)
    IN IF ~depth.ok
       THEN [ok |-> FALSE, error |-> "ValueError", config |-> c]
       ELSE [ok |-> TRUE, error |-> "none",
             config |->
                [c EXCEPT !.max_depth = [t |-> "int", v |-> depth.val],
                          !.number = IF c.number.t = "int"
                                     THEN [t |-> "seq", v |-> <<c.number.v>>]
                                     ELSE [t |-> "seq of " \o c.number.t,
                                           v |-> c.number.v]]]

\* the normalized values go to a fresh mapping, the caller's is left alone
validate_fresh(c) ==
    LET depth == PyInt(c.max_depth)
    IN IF ~depth.ok
       THEN [ok |-> FALSE, error |-> "ValueError", config |-> c]
       ELSE [ok |-> TRUE, error |-> "none", config |-> c]

\* `ok` tells whether validate returned, `config` is the mapping it leaves
\* behind (it writes into the caller's mapping), `error` what line 136 raised
validate(c) ==
    LET depth == PyInt(c.max_depth)
    IN IF ~depth.ok
       THEN [ok |-> FALSE, error |-> "ValueError", config |-> c]
       ELSE [ok |-> TRUE, error |-> "none",
             config |->
                [c EXCEPT !.max_depth = [t |-> "int", v |-> depth.val],
                          !.number = IF c.number.t = "int"
                                     THEN [t |-> "seq", v |-> <<c.number.v>>]
                                     ELSE c.number]]

(***************************************************************************)
(* _get_branching (search.py lines 195-230).                               *)
(***************************************************************************)
\* the lower clamp left out: container[min(maximal_index, index)]
get_branching_no_lower_clamp(c, i) == PyIndex(c, Min(Len(c) - 1, i))

\* index 0 whatever the depth
get_branching_first(c, i) == PyIndex(c, 0)

\* the last entry whatever the depth
get_branching_last(c, i) == PyIndex(c, Len(c) - 1)

_get_branching(c, i) ==
    LET maximal_index == Len(c) - 1
        minimal_index == 0
        clamped_index == Max(minimal_index, Min(maximal_index, i))
    IN PyIndex(c, clamped_index)

(***************************************************************************)
(* build_nodes (search.py lines 171-192), piece by piece.                  *)
(***************************************************************************)
\* lines 172-173 and 189-190: rank by position, from 0
EnumerateFromOne(videos, depth) ==
    [i \in 1..Len(videos) |-> Update(videos[i], i, depth)]

\* the children get the depth of their parent: the + 1 of line 190 is lost
EnumerateSameDepth(videos, depth) ==
    [i \in 1..Len(videos) |-> Update(videos[i], i - 1, depth - 1)]

Enumerate(videos, depth) ==
    [i \in 1..Len(videos) |-> Update(videos[i], i - 1, depth)]

\* line 182: the video is not expanded
IsLeafStrict(video, c) == video.depth > c.max_depth.v

IsLeaf(video, c) == video.depth >= c.max_depth.v

\* line 188: list(map(lambda c: c["videoId"], children))
Reverse(s) == [i \in 1..Len(s) |-> s[Len(s) + 1 - i]]

RelatedVideosReversed(children) ==
    Reverse([i \in 1..Len(children) |-> children[i].videoId])

RelatedVideos(children) == [i \in 1..Len(children) |-> children[i].videoId]

\* line 191: queue.extend(children)
ExtendLeft(q, children) == children \o q

\* children whose id already waits in the queue are dropped
ExtendUnseen(q, children) ==
    q \o SelectSeq(children,
                   LAMBDA c : c.videoId \notin {q[i].videoId : i \in 1..Len(q)})

Extend(q, children) == q \o children

\* where search() stands after a collaborator raised: nothing catches it
AfterRaiseCaught == "filter"

AfterRaise == "failed"

\* room left under MaxItems for records of a further answer
Room == MaxItems - (Len(processed) + Len(queue))

\* one entry of the call log: the collaborator `fn`, its `count` and `id`
\* arguments, whether it returned (`ok`) and the ids of the records it
\* returned (`ret`); `at` is the position in `processed` of the video the
\* call was made for (0 for the seed calls)
Call(fn, count, id, ok, ret, at) ==
    [fn |-> fn, count |-> count, id |-> id, ok |-> ok, ret |-> ret, at |-> at]

\* search() is left by exception e
Raise(e) ==
    /\ pc' = "failed"
    /\ error' = e

(***************************************************************************)
(* search(), lines 83-84: get_config and validate.                         *)
(***************************************************************************)
Validate ==
    /\ pc = "start"
    /\ LET v == validate(config)
       IN /\ config' = v.config
          /\ IF v.ok
             THEN pc' = "handle" /\ UNCHANGED error
             ELSE Raise(v.error)
    /\ UNCHANGED <<search_type, query, verbose, queue, processed, calls,
                   filtered, exported, printed, rest>>

(***************************************************************************)
(* search(), line 92: get_handle (143-154).                                *)
(***************************************************************************)
\* config["api_key"] as loaded: absent or a key
ApiKeys == {"", "key"}

\* echoe reports the error and ends the command
echoe == "SystemExit"

\* without a key echoe ends the command; with one get_youtube_handle gives
\* the handle or raises (the key is rejected, the service is not reached)
GetHandle ==
    /\ pc = "handle"
    /\ \E api_key \in ApiKeys :
          IF api_key = ""
          THEN Raise(echoe)
          ELSE \/ pc' = "seed" /\ UNCHANGED error
               \/ Raise("AuthError")
    /\ UNCHANGED <<search_type, query, config, verbose, queue, processed,
                   calls, filtered, exported, printed, rest>>

(***************************************************************************)
(* search(), lines 94-95: get_starter_videos (157-168) and the head of     *)
(* build_nodes (172-175).                                                  *)
(***************************************************************************)
\* build_nodes lines 172-175 on the records get_starter_videos returned
Started(call, ids) ==
    /\ calls' = Append(calls, call)
    /\ queue' = Enumerate(Raws(ids), 0)
    /\ processed' = <<>>
    /\ pc' = "loop"
    /\ UNCHANGED error

\* the seed collaborator raised
SeedFailed(call) ==
    /\ calls' = Append(calls, call)
    /\ pc' = AfterRaise
    /\ error' = "CollaboratorError"
    /\ UNCHANGED <<queue, processed>>

StartTerm ==
    /\ pc = "seed"
    /\ search_type = "term"
    /\ LET n == PyIndex(config.number.v, 0)
       IN IF ~n.ok
          THEN Raise("IndexError") /\ UNCHANGED <<calls, queue, processed>>
          ELSE \/ \E ids \in {a \in Answers(n.val) : Len(a) <= MaxItems} :
                    Started(Call("video_search", n.val, query.s, TRUE, ids, 0),
                            ids)
               \/ SeedFailed(Call("video_search", n.val, query.s, FALSE,
                                  <<>>, 0))
    /\ UNCHANGED <<search_type, query, config, verbose, filtered, exported,
                   printed, rest>>

StartId ==
    /\ pc = "seed"
    /\ search_type = "id"
    /\ \/ \E ids \in {<<>>, <<query.s>>} :
            Started(Call("video_info", 0, query.s, TRUE, ids, 0), ids)
       \/ SeedFailed(Call("video_info", 0, query.s, FALSE, <<>>, 0))
    /\ UNCHANGED <<search_type, query, config, verbose, filtered, exported,
                   printed, rest>>

StartUrl ==
    /\ pc = "seed"
    /\ search_type = "url"
    /\ IF query.v = <<>>
       THEN Raise("KeyError") /\ UNCHANGED <<calls, queue, processed>>
       ELSE LET video_id == query.v[1]
            IN \/ \E ids \in {<<>>, <<video_id>>} :
                    Started(Call("video_info", 0, video_id, TRUE, ids, 0), ids)
               \/ SeedFailed(Call("video_info", 0, video_id, FALSE, <<>>, 0))
    /\ UNCHANGED <<search_type, query, config, verbose, filtered, exported,
                   printed, rest>>

(***************************************************************************)
(* build_nodes, the loop (lines 176-192).                                  *)
(***************************************************************************)
\* line 176 with an empty queue, line 192: `processed` is returned
Return ==
    /\ pc = "loop"
    /\ queue = <<>>
    /\ pc' = "filter"
    /\ UNCHANGED <<error, search_type, query, config, verbose, queue,
                   processed, calls, filtered, exported, printed, rest>>

\* lines 177-181: popleft and append
Dequeue ==
    /\ pc = "loop"
    /\ queue # <<>>
    /\ processed' = Append(processed, Head(queue))
    /\ queue' = Tail(queue)
    /\ pc' = "visit"
    /\ UNCHANGED <<error, search_type, query, config, verbose, calls,
                   filtered, exported, printed, rest>>

\* `video` stays bound to the first video ever popped
CurrentFirst == Min(1, Len(processed))

\* the video popped last: the same dict as the last element of `processed`
Current == Len(processed)

\* lines 182-184
Leaf ==
    /\ pc = "visit"
    /\ IsLeaf(processed[Current], config)
    /\ processed' = [processed EXCEPT ![Current] = SetRelated(@, <<>>)]
    /\ pc' = "loop"
    /\ UNCHANGED <<error, search_type, query, config, verbose, queue, calls,
                   filtered, exported, printed, rest>>

\* lines 186-191
Expand ==
    /\ pc = "visit"
    /\ ~IsLeaf(processed[Current], config)
    /\ LET video == processed[Current]
           num_children == _get_branching(config.number.v, video.depth)
       IN IF ~num_children.ok
          THEN Raise("IndexError") /\ UNCHANGED <<calls, queue, processed>>
          ELSE \/ \E ids \in {a \in Answers(num_children.val) : Len(a) <= Room} :
                    LET children == Raws(ids)
                    IN /\ calls' = Append(calls,
                              Call("related_search", num_children.val,
                                   video.videoId, TRUE, ids, Current))
                       /\ processed' =
                              [processed EXCEPT ![Current] =
                                  SetRelated(@, RelatedVideos(children))]
                       /\ queue' = Extend(queue,
                                          Enumerate(children, video.depth + 1))
                       /\ pc' = "loop"
                       /\ UNCHANGED error
               \/ /\ calls' = Append(calls,
                         Call("related_search", num_children.val,
                              video.videoId, FALSE, <<>>, Current))
                  /\ pc' = AfterRaise
                  /\ error' = "CollaboratorError"
                  /\ UNCHANGED <<queue, processed>>
    /\ UNCHANGED <<search_type, query, config, verbose, filtered, exported,
                   printed, rest>>

(***************************************************************************)
(* search(), lines 96-118: text filter, export, rendering.                 *)
(***************************************************************************)
RECURSIVE SumStrKeys(_)
SumStrKeys(nodes) ==
    IF nodes = <<>> THEN 0
    ELSE Cardinality(StrKeys(Head(nodes))) + SumStrKeys(Tail(nodes))

\* the text filters tried: one that keeps these ids, one that rewrites them
Encodings == {"keep", "rewrite"}

\* filter_text(text, encoding=...)
filter_text(text, encoding) ==
    IF encoding = "keep" THEN text
    ELSE CASE text = "a" -> "A"
           [] text = "b" -> "B"
           [] OTHER -> text

\* lines 97-100: one filter_text call for every str value of every node,
\* and what it returns is written back into the node
Filter ==
    /\ pc = "filter"
    /\ filtered' = filtered + SumStrKeys(processed)
    /\ \E encoding \in Encodings :
          processed' =
              [i \in 1..Len(processed) |->
                  [processed[i] EXCEPT
                      !.videoId = filter_text(@, encoding)]]
    /\ pc' = "export"
    /\ UNCHANGED <<error, search_type, query, config, verbose, queue,
                   calls, exported, printed, rest>>

\* lines 102-105
Export ==
    /\ pc = "export"
    /\ exported' =
          IF config.output_dir # "" /\ config.output_format = "csv"
          THEN Append(exported, [nodes |-> processed, dir |-> config.output_dir])
          ELSE exported
    /\ pc' = "render"
    /\ UNCHANGED <<error, search_type, query, config, verbose, queue,
                   processed, calls, filtered, printed, rest>>

\* lines 110-118: what is printed for one node
Block(node) ==
    [indent |-> node.depth, depth |-> node.depth, rank |-> node.rank,
     videoId |-> node.videoId, relatedVideos |-> node.relatedVideos]

\* lines 107-118; the first entry of `printed` is the "Result:" heading
Render ==
    /\ pc = "render"
    /\ printed' =
          IF config.output_dir = "" \/ verbose
          THEN <<"Result:">> \o [i \in 1..Len(processed) |-> Block(processed[i])]
          ELSE printed
    /\ pc' = "done"
    /\ UNCHANGED <<error, search_type, query, config, verbose, queue,
                   processed, calls, filtered, exported, rest>>

(***************************************************************************)
(* The config command group (config.py).                                   *)
(***************************************************************************)
\* Python values of a configuration mapping: `t` is the type, `n` the
\* number behind an int or a bool (True is 1), `s` the text of a str;
\* "unset" stands for a key the mapping does not have
IntV(n) == [t |-> "int", n |-> n, s |-> ""]
BoolV(b) == [t |-> "bool", n |-> IF b THEN 1 ELSE 0, s |-> ""]
StrV(x) == [t |-> "str", n |-> 0, s |-> x]
FloatV == [t |-> "float", n |-> 0, s |-> "1.5"]
Unset == [t |-> "unset", n |-> 0, s |-> ""]

\* the option table: one option for each type of default value
DEFAULT_OPTIONS ==
    [max_depth |-> IntV(0), output_dir |-> StrV(""), verbose |-> BoolV(FALSE)]

Options == DOMAIN DEFAULT_OPTIONS

\* the VALUE arguments tried
Texts == {"2", "0", "-1", "1.5", "True", "False", "true", "false", "abc",
          "'abc'"}

\* ast.literal_eval(value): `ok` is FALSE when it raises
literal_eval(text) ==
    CASE text = "2" -> [ok |-> TRUE, val |-> IntV(2)]
      [] text = "0" -> [ok |-> TRUE, val |-> IntV(0)]
      [] text = "-1" -> [ok |-> TRUE, val |-> IntV(-1)]
      [] text = "1.5" -> [ok |-> TRUE, val |-> FloatV]
      [] text = "True" -> [ok |-> TRUE, val |-> BoolV(TRUE)]
      [] text = "False" -> [ok |-> TRUE, val |-> BoolV(FALSE)]
      [] text = "'abc'" -> [ok |-> TRUE, val |-> StrV("abc")]
      [] OTHER -> [ok |-> FALSE, val |-> StrV(text)]

\* config.py lines 34-40
Parsed(text) ==
    LET lit == literal_eval(text)
    IN IF lit.ok THEN lit.val
       ELSE IF text = "true" THEN BoolV(TRUE)
       ELSE IF text = "false" THEN BoolV(FALSE)
       ELSE StrV(text)

\* isinstance(value, target_type) with bool apart from int
IsInstanceExact(value, target_type) == value.t = target_type

\* isinstance(value, target_type): bool is a subclass of int
IsInstance(value, target_type) ==
    \/ value.t = target_type
    \/ value.t = "bool" /\ target_type = "int"

\* config.py lines 42-50: the value passes both tests
Accepted(option, value) ==
    LET target_type == DEFAULT_OPTIONS[option].t
    IN /\ IsInstance(value, target_type)
       /\ ~(target_type = "int" /\ value.n < 0)

\* every command starts from the mapping read from the configuration file
\* config.py lines 28-57
Set(option, text) ==
    LET value == Parsed(text)
    IN /\ pc = "config"
       /\ IF Accepted(option, value)
          THEN /\ stored' = [stored EXCEPT ![option] = value]
               /\ saved' = stored'
               /\ outcome' = "set"
          ELSE /\ stored' = stored
               /\ saved' = saved
               /\ outcome' = "BadArgumentUsage"
       /\ UNCHANGED <<crawlVars, branchVars>>

\* config.py lines 63-76
UnsetOption(option) ==
    /\ pc = "config"
    /\ stored' = [stored EXCEPT ![option] = Unset]
    /\ saved' = stored'
    /\ outcome' = "unset"
    /\ UNCHANGED <<crawlVars, branchVars>>

\* config.py lines 93-102
Clear(confirmed) ==
    /\ pc = "config"
    /\ stored' = stored
    /\ saved' = IF confirmed THEN [o \in Options |-> Unset] ELSE saved
    /\ outcome' = IF confirmed THEN "cleared" ELSE "aborted"
    /\ UNCHANGED <<crawlVars, branchVars>>

(***************************************************************************)
(* The search command.                                                     *)
(***************************************************************************)
Init ==
    /\ pc = "start"
    /\ error = "none"
    /\ search_type \in {"term", "id", "url"}
    /\ query \in Queries(search_type)
    /\ config \in Configs
    /\ verbose \in BOOLEAN
    /\ queue = <<>>
    /\ processed = <<>>
    /\ calls = <<>>
    /\ filtered = 0
    /\ exported = <<>>
    /\ printed = <<>>
    /\ container = <<>>
    /\ index = 0
    /\ result = [called |-> FALSE, ok |-> FALSE, val |-> 0]
    /\ saved = [o \in Options |-> Unset]
    /\ stored = saved
    /\ outcome = "idle"

Next ==
    \/ Validate
    \/ GetHandle
    \/ StartTerm
    \/ StartId
    \/ StartUrl
    \/ Return
    \/ Dequeue
    \/ Leaf
    \/ Expand
    \/ Filter
    \/ Export
    \/ Render

Spec == Init /\ [][Next]_vars

\* the runs that print their result: no output directory, no format, not
\* verbose; every max_depth, number, search type and query
CrawlInit ==
    /\ Init
    /\ config.output_dir = ""
    /\ config.output_format = "none"
    /\ ~verbose

CrawlSpec == CrawlInit /\ [][Next]_vars

\* the command is one sequential run: it keeps taking its next step for as
\* long as it has one
LiveSpec == CrawlSpec /\ WF_vars(Next)

(***************************************************************************)
(* _get_branching on its own: every container and index within the bounds. *)
(***************************************************************************)
BranchInit ==
    /\ pc = "branch"
    /\ error = "none"
    /\ search_type = "term"
    /\ query = [s |-> "q", v |-> <<>>]
    /\ config = [max_depth |-> [t |-> "int", v |-> 0],
                 number |-> [t |-> "seq", v |-> <<>>],
                 output_dir |-> "", output_format |-> "none"]
    /\ verbose = FALSE
    /\ queue = <<>>
    /\ processed = <<>>
    /\ calls = <<>>
    /\ filtered = 0
    /\ exported = <<>>
    /\ printed = <<>>
    /\ container \in SeqsOf(1..MaxCount, 0, MaxSchedule + 1)
    /\ index \in -MaxIndex..MaxIndex
    /\ result = [called |-> FALSE, ok |-> FALSE, val |-> 0]
    /\ saved = [o \in Options |-> Unset]
    /\ stored = saved
    /\ outcome = "idle"

GetBranching ==
    /\ pc = "branch"
    /\ ~result.called
    /\ LET r == _get_branching(container, index)
       IN result' = [called |-> TRUE, ok |-> r.ok, val |-> r.val]
    /\ UNCHANGED <<container, index, crawlVars, setVars>>

BranchNext == GetBranching

BranchSpec == BranchInit /\ [][BranchNext]_vars

(***************************************************************************)
(* The config commands on their own, run one after the other.              *)
(***************************************************************************)
ConfigInit ==
    /\ pc = "config"
    /\ error = "none"
    /\ search_type = "term"
    /\ query = [s |-> "q", v |-> <<>>]
    /\ config = [max_depth |-> [t |-> "int", v |-> 0],
                 number |-> [t |-> "seq", v |-> <<>>],
                 output_dir |-> "", output_format |-> "none"]
    /\ verbose = FALSE
    /\ queue = <<>>
    /\ processed = <<>>
    /\ calls = <<>>
    /\ filtered = 0
    /\ exported = <<>>
    /\ printed = <<>>
    /\ container = <<>>
    /\ index = 0
    /\ result = [called |-> FALSE, ok |-> FALSE, val |-> 0]
    /\ saved = [o \in Options |-> Unset]
    /\ stored = saved
    /\ outcome = "idle"

ConfigNext ==
    \/ \E option \in Options, text \in Texts : Set(option, text)
    \/ \E option \in Options : UnsetOption(option)
    \/ \E confirmed \in BOOLEAN : Clear(confirmed)

ConfigSpec == ConfigInit /\ [][ConfigNext]_vars

(***************************************************************************)
(* Vocabulary of the properties.                                           *)
(***************************************************************************)
max_depth == config.max_depth.v
number == config.number.v

\* the configuration is in the shape the crawl is specified for
ValidConfig ==
    /\ config.max_depth.t = "int"
    /\ max_depth >= 0
    /\ config.number.t = "seq"
    /\ number # <<>>

\* build_nodes has returned `processed`
Completed == pc \in {"filter", "export", "render", "done"}

\* the nodes carry the ids the collaborators gave: the text filter of
\* search() (lines 97-100) has not rewritten them yet
Untouched == pc \notin {"export", "render", "done"}

\* every video build_nodes holds, in the order it leaves the queue
All == processed \o queue

\* the ids the seed collaborator returned
Seeds == IF calls # <<>> /\ calls[1].ok THEN calls[1].ret ELSE <<>>

\* the related_search calls, in the order they were made
Related == SelectSeq(calls, LAMBDA c : c.fn = "related_search")

RECURSIVE Returned(_, _)
\* the number of records the first k calls of cs returned
Returned(cs, k) == IF k = 0 THEN 0 ELSE Len(cs[k].ret) + Returned(cs, k - 1)

\* places in All before the first child of each call of rel (the related
\* calls), when `first` videos were seeds
Offsets(rel, first) ==
    [k \in 1..Len(rel) |-> first + Returned(rel, k - 1)]

\* occurrences of x in the sequence s
Count(x, s) == Cardinality({i \in 1..Len(s) : s[i] = x})

RECURSIVE CountReturned(_, _, _)
\* occurrences of x in the records the first k calls of cs returned
CountReturned(x, cs, k) ==
    IF k = 0 THEN 0 ELSE Count(x, cs[k].ret) + CountReturned(x, cs, k - 1)

VideoIds(s) == [i \in 1..Len(s) |-> s[i].videoId]

\* the branching the specification prescribes at depth d
Clamped(c, d) == c[Max(0, Min(d, Len(c) - 1)) + 1]

(***************************************************************************)
(* C1. Depth bound: under a validated configuration (max_depth >= 0,       *)
(* non-empty number) every video in `processed` has 0 <= depth <=          *)
(* max_depth, and a video at depth = max_depth never has a non-empty       *)
(* relatedVideos: once its iteration is over it has the empty list.        *)
(***************************************************************************)
C1_DepthBound ==
    ValidConfig =>
        \A i \in 1..Len(processed) :
            /\ 0 <= processed[i].depth
            /\ processed[i].depth <= max_depth
            /\ processed[i].depth = max_depth =>
                  /\ processed[i].relatedVideos = <<>>
                  /\ (i < Len(processed) \/ pc # "visit") =>
                        "relatedVideos" \in processed[i].keys

C1_Witness ==
    /\ pc = "done"
    /\ ValidConfig
    /\ max_depth = 2
    /\ \E i \in 1..Len(processed) :
          /\ processed[i].depth = max_depth
          /\ "relatedVideos" \in processed[i].keys
    /\ \E i \in 1..Len(processed) : processed[i].relatedVideos # <<>>

(***************************************************************************)
(* C2. BFS order: the seeds come first, in seed order; depths never        *)
(* decrease along the output; the children of one parent are contiguous    *)
(* and in the order related_search returned them; and the children of an   *)
(* earlier parent all precede the children of a later one.                 *)
(***************************************************************************)
C2_BfsOrder ==
    LET rel == Related
        all == All
        seeds == Seeds
        before == Offsets(Related, Len(Seeds))
    IN
        (calls # <<>> /\ calls[1].ok) =>
            /\ Len(all) >= Len(seeds)
            /\ \A i \in 1..Len(seeds) :
                  /\ Untouched => all[i].videoId = seeds[i]
                  /\ all[i].depth = 0
            /\ \A i \in 1..Len(all) : all[i].depth = 0 => i <= Len(seeds)
            /\ \A i \in 1..Len(all) - 1 : all[i].depth <= all[i + 1].depth
            /\ \A k \in 1..Len(rel) :
                  /\ before[k] + Len(rel[k].ret) <= Len(all)
                  /\ \A m \in 1..Len(rel[k].ret) :
                        /\ Untouched =>
                              all[before[k] + m].videoId = rel[k].ret[m]
                        /\ all[before[k] + m].depth
                              = all[rel[k].at].depth + 1
            /\ \A k, l \in 1..Len(rel) :
                  k < l => rel[k].at < rel[l].at

C2_Witness ==
    /\ pc = "filter"
    /\ Len(processed) = 4
    /\ \E i, j \in 1..Len(processed) :
          /\ i < j
          /\ processed[i].depth = processed[j].depth
          /\ Len(processed[i].relatedVideos) = 1
          /\ Len(processed[j].relatedVideos) = 1
          /\ processed[i].relatedVideos # processed[j].relatedVideos

(***************************************************************************)
(* C3. Edge mirroring: when build_nodes has returned, every output video v *)
(* with depth < max_depth has exactly one related_search call, its         *)
(* relatedVideos is the list of ids that call returned, in order, and the  *)
(* videos enqueued for v are these same children, as many and in order.    *)
(***************************************************************************)
C3_EdgeMirroring ==
    LET rel == Related
        all == All
        seeds == Seeds
        before == Offsets(Related, Len(Seeds))
    IN
        Completed =>
            \A i \in 1..Len(processed) :
                processed[i].depth < max_depth =>
                    /\ \E k \in 1..Len(rel) : rel[k].at = i
                    /\ \A k \in 1..Len(rel) :
                          rel[k].at = i =>
                              /\ processed[i].relatedVideos = rel[k].ret
                              /\ before[k] + Len(processed[i].relatedVideos)
                                    <= Len(processed)
                              /\ \A m \in 1..Len(processed[i].relatedVideos) :
                                    /\ Untouched =>
                                          processed[before[k] + m].videoId
                                             = processed[i].relatedVideos[m]
                                    /\ processed[before[k] + m].depth
                                          = processed[i].depth + 1

C3_Witness ==
    /\ pc = "filter"
    /\ \E i \in 1..Len(processed) :
          /\ processed[i].depth < max_depth
          /\ Len(processed[i].relatedVideos) = 2
          /\ processed[i].relatedVideos[1] # processed[i].relatedVideos[2]

(***************************************************************************)
(* C4. Rank assignment: the k seeds carry ranks 0..k-1 in seed order; the  *)
(* n children of one related_search answer carry ranks 0..n-1 by their     *)
(* position in it and depth = parent depth + 1, so a rank is unique among  *)
(* the children of one parent and among the seeds.                         *)
(***************************************************************************)
C4_RankAssignment ==
    LET rel == Related
        all == All
        seeds == Seeds
        before == Offsets(Related, Len(Seeds))
    IN
        (calls # <<>> /\ calls[1].ok) =>
            /\ \A i \in 1..Len(seeds) : all[i].rank = i - 1 /\ all[i].depth = 0
            /\ \A k \in 1..Len(rel) :
                  \A m \in 1..Len(rel[k].ret) :
                      /\ all[before[k] + m].rank = m - 1
                      /\ all[before[k] + m].depth
                            = processed[rel[k].at].depth + 1
                      /\ \A n \in 1..Len(rel[k].ret) :
                            all[before[k] + m].rank = all[before[k] + n].rank
                                => m = n

C4_Witness ==
    /\ pc = "done"
    /\ Len(Seeds) = 2
    /\ processed[2].rank = 1
    /\ \E i \in 1..Len(processed) :
          processed[i].depth = 1 /\ processed[i].rank = 1

(***************************************************************************)
(* C5. Branching clamp: for every non-empty container and every index      *)
(* (negative ones and ones past the end included) _get_branching returns   *)
(* container[max(0, min(index, len(container) - 1))] and does not raise.   *)
(***************************************************************************)
C5_BranchingClamp ==
    (result.called /\ container # <<>>) =>
        /\ result.ok
        /\ result.val = Clamped(container, index)

C5_Witness ==
    /\ result.called
    /\ index < 0
    /\ Len(container) = 2
    /\ container[1] # container[2]
    /\ result.ok
    /\ result.val = container[1]

(***************************************************************************)
(* C6. Collaborator call discipline: related_search is never called for a  *)
(* video with depth >= max_depth, and when build_nodes has returned it was *)
(* called exactly once for every output video with depth < max_depth, with *)
(* that video's id and the count the branching policy gives at its depth,  *)
(* so the calls are as many as the output videos with depth < max_depth.   *)
(***************************************************************************)
C6_CallDiscipline ==
    LET rel == Related
        all == All
        seeds == Seeds
        before == Offsets(Related, Len(Seeds))
    IN
        /\ \A k \in 1..Len(rel) :
              /\ rel[k].at \in 1..Len(processed)
              /\ processed[rel[k].at].depth < max_depth
              /\ Untouched => rel[k].id = processed[rel[k].at].videoId
              /\ rel[k].count = Clamped(number, processed[rel[k].at].depth)
        /\ Completed =>
              /\ \A i \in 1..Len(processed) :
                    Cardinality({k \in 1..Len(rel) : rel[k].at = i})
                        = IF processed[i].depth < max_depth THEN 1 ELSE 0
              /\ Len(rel)
                    = Cardinality({i \in 1..Len(processed) :
                                      processed[i].depth < max_depth})

C6_Witness ==
    /\ pc = "done"
    /\ Len(number) = 2
    /\ number[1] # number[2]
    /\ \E k \in 1..Len(Related) :
          /\ processed[Related[k].at].depth = 1
          /\ Related[k].count = number[2]
    /\ \E i \in 1..Len(processed) : processed[i].depth = max_depth

(***************************************************************************)
(* C7. An empty number schedule is rejected by validate with ConfigError:  *)
(* no collaborator is called and search() gets no further than validate.   *)
(***************************************************************************)
C7_EmptyScheduleRejected ==
    (config.number.t = "seq" /\ number = <<>>) =>
        /\ calls = <<>>
        /\ pc \in {"start", "failed"}
        /\ pc = "failed" => error \in {"ConfigError", "ValueError"}

(***************************************************************************)
(* C8. A negative max_depth is rejected by validate with ConfigError: no   *)
(* collaborator is called, no crawl runs and no video is put out with a    *)
(* depth above max_depth.                                                  *)
(***************************************************************************)
C8_NegativeDepthRejected ==
    (PyInt(config.max_depth).ok /\ PyInt(config.max_depth).val < 0) =>
        /\ calls = <<>>
        /\ pc \in {"start", "failed"}
        /\ pc = "failed" => error = "ConfigError"
        /\ \A i \in 1..Len(processed) : processed[i].depth <= max_depth

(***************************************************************************)
(* C9. A collaborator failure aborts the crawl: once related_search has    *)
(* raised, search() is left by that exception, the failed call is the last *)
(* call made, build_nodes returns nothing, and nothing is filtered,        *)
(* exported or rendered; whatever is delivered comes from a crawl in which *)
(* every call returned and the queue ran empty.                            *)
(***************************************************************************)
C9_FailureAborts ==
    /\ \A k \in 1..Len(calls) :
          ~calls[k].ok =>
              /\ k = Len(calls)
              /\ pc = "failed"
              /\ error = "CollaboratorError"
              /\ filtered = 0
              /\ exported = <<>>
              /\ printed = <<>>
    /\ (Completed \/ filtered # 0 \/ exported # <<>> \/ printed # <<>>) =>
          /\ error = "none"
          /\ queue = <<>>
          /\ \A k \in 1..Len(calls) : calls[k].ok

C9_Witness ==
    /\ pc = "failed"
    /\ error = "CollaboratorError"
    /\ Len(processed) >= 3
    /\ queue # <<>>
    /\ calls[Len(calls)].fn = "related_search"
    /\ ~calls[Len(calls)].ok
    /\ filtered = 0 /\ exported = <<>> /\ printed = <<>>

(***************************************************************************)
(* C10. Completeness without deduplication: when build_nodes has returned, *)
(* the output holds every seed and every record any related_search call    *)
(* returned, once per occurrence, and every output video with depth <      *)
(* max_depth was expanded, also when its id was put out before.            *)
(***************************************************************************)
C10_Completeness ==
    LET rel == Related
        all == All
        seeds == Seeds
        before == Offsets(Related, Len(Seeds))
    IN
        Completed =>
            /\ Len(processed) = Len(seeds) + Returned(rel, Len(rel))
            /\ Untouched =>
                  \A x \in Ids :
                     Count(x, VideoIds(processed))
                        = Count(x, seeds) + CountReturned(x, rel, Len(rel))
            /\ \A i \in 1..Len(processed) :
                  processed[i].depth < max_depth =>
                      /\ "relatedVideos" \in processed[i].keys
                      /\ \E k \in 1..Len(rel) :
                            rel[k].at = i /\ rel[k].ok

C10_Witness ==
    /\ pc = "filter"
    /\ \E i, j \in 1..Len(processed) :
          /\ i < j
          /\ processed[i].videoId = processed[j].videoId
          /\ processed[i].depth = 0
          /\ processed[j].depth = 1
          /\ processed[j].videoId \in
                {processed[i].relatedVideos[m] :
                    m \in 1..Len(processed[i].relatedVideos)}
          /\ processed[j].relatedVideos # <<>>
    /\ \E i, j \in 1..Len(processed) :
          /\ i < j
          /\ processed[i].videoId = processed[j].videoId
          /\ processed[i].depth = processed[j].depth
          /\ processed[i].depth = 1

\* the configuration get_config returned is one validate is meant to accept
WellFormed ==
    /\ PyInt(config.max_depth).ok
    /\ PyInt(config.max_depth).val >= 0
    /\ config.number.t = "int" \/ config.number.v # <<>>

(***************************************************************************)
(* C11. URL seed mode: a URL without a "v" parameter makes seed resolution *)
(* fail with InputError before any collaborator call and before the crawl; *)
(* a URL with one makes the call id mode makes, video_info on that id.     *)
(***************************************************************************)
C11_UrlSeed ==
    (search_type = "url" /\ WellFormed) =>
        IF query.v = <<>>
        THEN /\ calls = <<>>
             /\ queue = <<>> /\ processed = <<>>
             /\ pc \in {"start", "handle", "seed", "failed"}
             /\ pc = "failed" =>
                   error \in {"InputError", "ValueError", "AuthError", echoe}
        ELSE calls # <<>> =>
                /\ calls[1].fn = "video_info"
                /\ calls[1].id = query.v[1]
                /\ \A k \in 2..Len(calls) : calls[k].fn = "related_search"

(***************************************************************************)
(* C12. Result delivery: when search() ends after a completed crawl, the   *)
(* nodes were exported if export is configured (output_dir set and format  *)
(* csv) and rendered otherwise: always one of the two, never both.         *)
(***************************************************************************)
C12_ResultDelivery ==
    (pc = "done" /\ WellFormed) =>
        LET configured == config.output_dir # "" /\ config.output_format = "csv"
        IN /\ configured =>
                /\ Len(exported) = 1
                /\ exported[1].nodes = processed
                /\ printed = <<>>
           /\ ~configured =>
                /\ exported = <<>>
                /\ Len(printed) = Len(processed) + 1

(***************************************************************************)
(* C13. config set: a value is stored and written only when its type is    *)
(* the type of the option's default and, for an int option, it is not      *)
(* negative (a bool does not pass for an int option); a rejected value     *)
(* leaves the mapping in memory and the written mapping as they were.      *)
(***************************************************************************)
C13_SetValidation ==
    [][/\ \A option \in Options :
             /\ saved'[option].t \in {"unset", DEFAULT_OPTIONS[option].t}
             /\ stored'[option].t \in {"unset", DEFAULT_OPTIONS[option].t}
             /\ saved'[option].n >= 0
             /\ stored'[option].n >= 0
       /\ outcome' = "BadArgumentUsage" =>
             (stored' = stored /\ saved' = saved)]_vars

\* validate has returned
Normalized == pc \notin {"start", "failed"} \/ (pc = "failed" /\ error # "ValueError")

(***************************************************************************)
(* C14. Idempotent normalization: validate applied to a configuration it   *)
(* has already normalized returns and leaves it identical: same max_depth, *)
(* same number sequence, no further wrapping.                              *)
(***************************************************************************)
C14_IdempotentValidate ==
    Normalized =>
        LET again == validate(config)
        IN /\ again.ok
           /\ again.config.max_depth = config.max_depth
           /\ again.config.number.t = config.number.t
           /\ again.config.number.v = config.number.v
           /\ again.config = config

C14_Witness ==
    /\ pc = "seed"
    /\ config.max_depth = [t |-> "int", v |-> 2]
    /\ config.number.t = "seq"
    /\ config.number.v = <<2>>
    /\ validate(config).config = config

(***************************************************************************)
(* C15 as claimed. validate has no side effect on the caller's mapping:    *)
(* the step that runs validate leaves context.obj["config"] as it was.     *)
(***************************************************************************)
C15_CallerConfigUnchanged == [][pc = "start" => config' = config]_vars

(***************************************************************************)
(* C15 as amended. validate normalizes the caller's mapping in place: when *)
(* it returns, context.obj["config"] itself holds the int coercion of      *)
(* max_depth and, for a scalar number, the one-element sequence; the other *)
(* keys are unchanged; when it raises, the mapping is unchanged.           *)
(***************************************************************************)
C15_NormalizedInPlace ==
    [][pc = "start" =>
          IF pc' = "handle"
          THEN /\ config'.max_depth.t = "int"
               /\ config'.max_depth.v = config.max_depth.v
               /\ config'.number.t = "seq"
               /\ config'.number.v = IF config.number.t = "int"
                                     THEN <<config.number.v>>
                                     ELSE config.number.v
               /\ config'.output_dir = config.output_dir
               /\ config'.output_format = config.output_format
          ELSE config' = config]_vars

C15_Witness ==
    /\ pc = "seed"
    /\ config.max_depth.t = "int"
    /\ config.number.t = "seq"
    /\ Len(config.number.v) = 1

\* the output item at position i has its relatedVideos key
Attached(nodes, i) == "relatedVideos" \in nodes[i].keys

(***************************************************************************)
(* C16 as claimed. Once a video is in the output sequence it is never      *)
(* modified: no step changes the rank, the depth or the relatedVideos of   *)
(* an item already appended (relatedVideos is there at the append).        *)
(***************************************************************************)
C16_FrozenOnceAppended ==
    [][\A i \in 1..Len(processed) :
          /\ processed'[i].rank = processed[i].rank
          /\ processed'[i].depth = processed[i].depth
          /\ Attached(processed', i) = Attached(processed, i)
          /\ processed'[i].relatedVideos = processed[i].relatedVideos]_vars

(***************************************************************************)
(* C16 as amended. An appended video keeps its rank and depth for ever;    *)
(* it is appended without relatedVideos, which is attached exactly once,   *)
(* by the same loop iteration, while the video is the last item of the     *)
(* output; from then on its relatedVideos never changes either. Only the   *)
(* last item can lack relatedVideos, and only inside its own iteration (or *)
(* after the iteration was ended by an exception).                         *)
(***************************************************************************)
C16_FrozenOnceAttached ==
    [][\A i \in 1..Len(processed) :
          /\ processed'[i].rank = processed[i].rank
          /\ processed'[i].depth = processed[i].depth
          /\ IF Attached(processed, i)
             THEN /\ Attached(processed', i)
                  /\ processed'[i].relatedVideos = processed[i].relatedVideos
             ELSE /\ i = Len(processed)
                  /\ pc = "visit"
                  /\ Attached(processed', i) \/ pc' = "failed"]_vars

C16_Witness ==
    /\ pc = "loop"
    /\ Len(processed) >= 2
    /\ \A i \in 1..Len(processed) : Attached(processed, i)
    /\ processed[1].relatedVideos # <<>>
    /\ processed[2].relatedVideos = <<>>

\* build_nodes is running
InLoop == pc \in {"loop", "visit"}

\* the steps build_nodes can still take for a video at depth d and all its
\* descendants, when every call returns the longest answer there is
RECURSIVE Work(_)
Work(d) ==
    IF d >= max_depth THEN 2
    ELSE 2 + (Clamped(number, d) + 1) * Work(d + 1)

RECURSIVE QueueWork(_)
QueueWork(q) == IF q = <<>> THEN 0 ELSE Work(Head(q).depth) + QueueWork(Tail(q))

\* the steps build_nodes can still take from this state, the return included
Variant ==
    IF ~InLoop THEN 0
    ELSE 1 + QueueWork(queue)
           + (IF pc = "visit" THEN Work(processed[Current].depth) - 1 ELSE 0)

(***************************************************************************)
(* C17. Termination: with max_depth >= 0 and a non-empty number, every     *)
(* step of build_nodes strictly decreases a non-negative measure of the    *)
(* work left (bounded by max_depth and the length of the answers, whatever *)
(* ids come back, repeated ones included), and a run that has entered the  *)
(* loop reaches the return with an empty queue unless a collaborator call  *)
(* fails.                                                                  *)
(***************************************************************************)
C17_Termination ==
    /\ [][(InLoop /\ ValidConfig) => (Variant' >= 0 /\ Variant' < Variant)]_vars
    /\ (InLoop /\ ValidConfig)
          ~> ((pc = "filter" /\ queue = <<>>) \/ error = "CollaboratorError")

\* a crawl over a cycle (the seed is reached again two levels down) has
\* returned
C17_Witness ==
    /\ pc = "filter"
    /\ queue = <<>>
    /\ ValidConfig
    /\ error = "none"
    /\ Len(processed) >= 3
    /\ processed[Len(processed)].depth = 2
    /\ processed[Len(processed)].videoId = processed[1].videoId

(***************************************************************************)
(* C18. Queue levels: at every loop head of build_nodes the depths in the  *)
(* queue are non-decreasing from front to back and span at most two        *)
(* consecutive values, every queued video has depth <= max_depth, and      *)
(* every video in the output has depth <= the depth of the queue's front.  *)
(***************************************************************************)
C18_QueueLevels ==
    pc = "loop" =>
        LET q == queue
        IN /\ \A i \in 1..Len(q) - 1 : q[i].depth <= q[i + 1].depth
           /\ q # <<>> => q[Len(q)].depth <= q[1].depth + 1
           /\ \A i \in 1..Len(q) : q[i].depth <= max_depth
           /\ q # <<>> =>
                 \A i \in 1..Len(processed) : processed[i].depth <= q[1].depth

RECURSIVE Fanout(_, _)
\* the product of the prescribed branchings of the depths below d
Fanout(c, d) == IF d <= 0 THEN 1 ELSE Clamped(c, d - 1) * Fanout(c, d - 1)

RECURSIVE SumFanout(_, _, _)
\* k * (Fanout(c, 0) + ... + Fanout(c, d))
SumFanout(k, c, d) ==
    IF d < 0 THEN 0 ELSE k * Fanout(c, d) + SumFanout(k, c, d - 1)

(***************************************************************************)
(* C19. Bounded work: with a non-empty number and calls that return at     *)
(* most `count` records, for k seeds the videos build_nodes holds at depth *)
(* d are at most k times the product of the branchings of the depths below *)
(* d, for every d <= max_depth; hence the length of the output is at most  *)
(* the sum of these bounds over the depths 0..max_depth and the number of  *)
(* related_search calls at most their sum over 0..max_depth - 1.           *)
(***************************************************************************)
C19_BoundedWork ==
    LET all == All
        k == Len(Seeds)
        rel == Related
        level(d) == Cardinality({i \in 1..Len(all) : all[i].depth = d})
    IN (/\ config.number.t = "seq" /\ number # <<>>
        /\ \A i \in 1..Len(rel) : Len(rel[i].ret) <= rel[i].count) =>
           /\ \A d \in 0..max_depth : level(d) <= k * Fanout(number, d)
           /\ Len(all) <= SumFanout(k, number, Max(max_depth, 0))
           /\ Len(rel) <= SumFanout(k, number, max_depth - 1)

\* a finished crawl that fills the bound of every level: 1, 1 and 2 videos
\* at the depths 0, 1 and 2 under the schedule <<1, 2>>
C19_Witness ==
    /\ Completed
    /\ max_depth = 2
    /\ config.number.t = "seq"
    /\ number = <<1, 2>>
    /\ Len(Seeds) = 1
    /\ Len(processed) = 4
    /\ processed[2].depth = 1
    /\ processed[3].depth = 2
    /\ processed[4].depth = 2
    /\ Len(Related) = 2

====
